---- MODULE Spec2Model ----
(***************************************************************************)
(* A model of the PyPO host-language front end:                            *)
(*   - PyPOTypes.resContainer (fields / currents) and its operations,      *)
(*   - BindRefl.loadRefllib and BindRefl.generatePOGrid,                   *)
(*   - the Enums catalogue (Enum class creation, __str__, Units algebra),  *)
(*   - the version resolution of setup.py.                                 *)
(* Each part has its own specification; the variables of the other parts   *)
(* stay at their initial value.                                            *)
(***************************************************************************)
EXTENDS Integers, Sequences, FiniteSets, TLC

VARIABLES
    rtype,      \* resContainer.type: the two letters of the tag
    memlist,    \* resContainer.memlist: the labels, in order
    attrs,      \* the instance attributes set by setattr: label -> array
    shape,      \* resContainer.shape
    size,       \* resContainer.size
    result,     \* outcome of the last operation on the container
    hist,       \* the last (two) applications of T or of H in a row, with the attributes before
    nsets,      \* number of positional sets done so far
    disk,       \* the library files beside the binding module that CDLL can load
    rec,        \* reflparams_py: the caller's reflector parameter record
    caller,     \* the function that was called: generatePOGrid or loadRefllib
    pc,         \* the position in that call
    attempts,   \* the paths handed to ctypes.CDLL so far, in order
    lib,        \* the handle CDLL returned, or None
    exc,        \* the exception that propagated to the caller, or NoExc
    native,     \* native records created, filled, allocated; entry points invoked
    ret,        \* the value returned to the caller, or None
    classes,    \* the enumeration classes of module Enums, once it is imported
    orig,       \* the plain number an expression over an enum member starts from
    steps,      \* the operations of the expression evaluated so far, with their outcomes
    out,        \* the value of the expression so far
    lines,      \* the lines of the version file
    lineno,     \* the line the loop of the version resolution is at
    version,    \* setup.py's version
    scanning,   \* the loop over the lines has not ended
    extensions, \* self.extensions of the build_ext command: the names, in order
    dry_run,    \* self.dry_run
    os_name,    \* os.name
    build_temp, \* self.build_temp
    workdir,    \* the working directory of the process (os.getcwd())
    cwd,        \* build_cmake's local cwd
    began,      \* the working directory when the last build_cmake started
    ext,        \* the position of the loop of run in self.extensions
    made,       \* the directories that exist
    spawned,    \* the calls of self.spawn so far, in order, with how each ended
    bpc         \* the position in run and build_cmake

cvars == <<rtype, memlist, attrs, shape, size, result, hist, nsets>>
lvars == <<disk, rec, caller, pc, attempts, lib, exc, native, ret>>
evars == <<classes, orig, steps, out>>
svars == <<lines, lineno, version, scanning>>
bvars == <<extensions, dry_run, os_name, build_temp, workdir, cwd, began, ext,
           made, spawned, bpc>>

(***************************************************************************)
(* Bounds                                                                  *)
(***************************************************************************)
MaxDim == 2     \* arrays have 1..MaxDim rows and columns
MaxIdx == 7     \* positional indices range over -MaxIdx..MaxIdx
MaxSets == 1    \* positional sets per behaviour
MaxExts == 2    \* extensions of one build_ext command

(***************************************************************************)
(* Arrays: a two-dimensional array is a sequence of rows; an element is a  *)
(* complex number <<re, im>>.                                              *)
(***************************************************************************)
ArrShape(a) == <<Len(a), Len(a[1])>>

\* a transpose that walks the rows backwards (a quarter turn)
Transpose_Rot(a) ==
    [c \in 1..Len(a[1]) |-> [r \in 1..Len(a) |-> a[Len(a) - r + 1][c]]]

\* numpy ndarray.T of a two-dimensional array
Transpose(a) ==
    [c \in 1..Len(a[1]) |-> [r \in 1..Len(a) |-> a[r][c]]]

\* numpy ndarray.conj()
Conj(a) ==
    [r \in 1..Len(a) |-> [c \in 1..Len(a[1]) |-> <<a[r][c][1], -a[r][c][2]>>]]

\* the array number n with r rows and c columns: distinct complex entries
MkArr(n, r, c) ==
    [i \in 1..r |-> [j \in 1..c |-> <<100 * n + 10 * i + j, i + j + n>>]]

(***************************************************************************)
(* Python list indexing: list[idx] with negative indices counted from the  *)
(* end; out of range is an IndexError.                                     *)
(***************************************************************************)
InListRange(lst, idx) == -Len(lst) <= idx /\ idx < Len(lst)

ListIndex(lst, idx) == IF idx >= 0 THEN lst[idx + 1] ELSE lst[Len(lst) + idx + 1]

(***************************************************************************)
(* resContainer                                                            *)
(***************************************************************************)
ax == <<"x", "y", "z">>

\* the value of n when the constructor's loop reaches index i (0-based)
LoopN(i) == i \div 3

\* the label when n is never incremented
Label_NoIncrement(tag, i) == tag[1] \o ax[(i % 3) + 1]

\* the label appended for argument i (0-based): type[n] + ax[i - 3*n]
Label(tag, i) == tag[LoopN(i) + 1] \o ax[(i - 3 * LoopN(i)) + 1]

\* memlist after the constructor's loop over the arguments
MemList(tag, args) == [k \in 1..Len(args) |-> Label(tag, k - 1)]

\* the attributes after the loop: setattr in argument order, later wins
RECURSIVE SetAttrs(_, _, _, _)
SetAttrs(at, tag, args, k) ==
    IF k > Len(args) THEN at
    ELSE SetAttrs([l \in (DOMAIN at) \cup {Label(tag, k - 1)} |->
                      IF l = Label(tag, k - 1) THEN args[k] ELSE at[l]],
                  tag, args, k + 1)

EmptyAttrs == [l \in {} |-> <<>>]

\* a getter that wraps the index around instead of raising
GetItem_Wrap(ml, at, idx) ==
    [kind |-> "ok", val |-> at[ml[(idx % Len(ml)) + 1]]]

\* __getitem__: the value, or the IndexError raised from the except clause
GetItem(ml, at, idx) ==
    IF InListRange(ml, idx) /\ ListIndex(ml, idx) \in DOMAIN at
    THEN [kind |-> "ok", val |-> at[ListIndex(ml, idx)]]
    ELSE [kind |-> "IndexError", msg |-> <<"Index out of range: ", idx>>]

\* __setitem__: the attributes after it, and whether it raised
SetItemRaises(ml, idx) == ~InListRange(ml, idx)

SetItem(ml, at, idx, item) ==
    IF SetItemRaises(ml, idx) THEN at
    ELSE [l \in (DOMAIN at) \cup {ListIndex(ml, idx)} |->
             IF l = ListIndex(ml, idx) THEN item ELSE at[l]]

\* the loop of T(): for i in range(6): self[i] = self[i].T
RECURSIVE TLoop(_, _, _)
TLoop(ml, at, i) ==
    IF i >= 6 THEN at
    ELSE TLoop(ml, SetItem(ml, at, i, Transpose(GetItem(ml, at, i).val)), i + 1)

\* the loop of H(): for i in range(6): self[i] = self[i].conj().T
RECURSIVE HLoop(_, _, _)
HLoop(ml, at, i) ==
    IF i >= 6 THEN at
    ELSE HLoop(ml, SetItem(ml, at, i, Transpose(Conj(GetItem(ml, at, i).val))), i + 1)

\* fields(...) passes restype "EH", currents(...) passes restype "JM"
FieldsTag == <<"E", "H">>
CurrentsTag == <<"J", "M">>

\* the current run of one structural operation applied in a row: its last two
\* applications, each with the attributes before it
Push(h, op, at) ==
    IF h = <<>> \/ h[Len(h)].op # op THEN <<[op |-> op, before |-> at]>>
    ELSE <<h[Len(h)], [op |-> op, before |-> at]>>

\* resContainer.__init__ called by fields.__init__ / currents.__init__
CInit ==
    \E tag \in {FieldsTag, CurrentsTag}, r \in 1..MaxDim, c \in 1..MaxDim :
        /\ r <= c
        /\ LET args == [k \in 1..6 |-> MkArr(k - 1, r, c)] IN
           /\ rtype = tag
           /\ memlist = MemList(tag, args)
           /\ attrs = SetAttrs(EmptyAttrs, tag, args, 1)
           /\ shape = ArrShape(args[1])
           /\ size = ArrShape(args[1])[1] * ArrShape(args[1])[2]
           /\ result = [op |-> "init", kind |-> "ok"]
           /\ hist = <<>>
           /\ nsets = 0

\* container[idx]
Get(idx) ==
    /\ result' = [op |-> "get", idx |-> idx, before |-> attrs,
                  ret |-> GetItem(memlist, attrs, idx)]
    /\ UNCHANGED <<rtype, memlist, attrs, shape, size, hist, nsets>>

\* container[idx] = item
Set(idx, item) ==
    /\ nsets < MaxSets
    /\ nsets' = nsets + 1
    /\ attrs' = SetItem(memlist, attrs, idx, item)
    /\ result' = [op |-> "set", idx |-> idx, item |-> item, before |-> attrs,
                  ret |-> IF SetItemRaises(memlist, idx)
                          THEN [kind |-> "IndexError",
                                msg |-> <<"Index out of range: ", idx>>]
                          ELSE [kind |-> "ok"]]
    /\ hist' = <<>>
    /\ UNCHANGED <<rtype, memlist, shape, size>>

\* container.T(): the loop, then return self
T ==
    /\ attrs' = TLoop(memlist, attrs, 0)
    /\ result' = [op |-> "T", ret |-> [kind |-> "ok", val |-> "self"]]
    /\ hist' = Push(hist, "T", attrs)
    /\ UNCHANGED <<rtype, memlist, shape, size, nsets>>

\* container.H(): the loop, then return self
H ==
    /\ attrs' = HLoop(memlist, attrs, 0)
    /\ result' = [op |-> "H", ret |-> [kind |-> "ok", val |-> "self"]]
    /\ hist' = Push(hist, "H", attrs)
    /\ UNCHANGED <<rtype, memlist, shape, size, nsets>>

Indices == (-MaxIdx)..MaxIdx

\* the arrays a caller may store: one of the recorded shape, one of another
Items == {MkArr(6, shape[1], shape[2]), MkArr(7, shape[1] + 1, shape[2])}

\* the container before any is constructed (the other parts' specifications)
CIdle ==
    /\ rtype = <<>> /\ memlist = <<>> /\ attrs = EmptyAttrs
    /\ shape = <<>> /\ size = 0 /\ result = [op |-> "none"]
    /\ hist = <<>> /\ nsets = 0

(***************************************************************************)
(* BindRefl: loadRefllib and generatePOGrid                                *)
(***************************************************************************)
MaxPts == 2     \* po_points and gridsize entries range over 1..MaxPts

\* pathlib.Path(__file__).parent.resolve()
path_cur == "PyPO"

\* os.path.join(path_cur, name)
Join(dir, name) == <<dir, name>>

\* the candidates in another order
Candidate_SoFirst(i) ==
    CASE i = 1 -> "libpyporefl.so"
      [] i = 2 -> "pyporefl.dll"
      [] i = 3 -> "libpyporefl.dylib"

\* the file name of the i-th ctypes.CDLL call of loadRefllib
Candidate(i) ==
    CASE i = 1 -> "pyporefl.dll"
      [] i = 2 -> "libpyporefl.so"
      [] i = 3 -> "libpyporefl.dylib"

LibFiles == {"pyporefl.dll", "libpyporefl.so", "libpyporefl.dylib"}

\* the names the module PyPOTypes defines
PTypesNames == {"resContainer", "currents", "fields", "po_currents", "rfield",
                "scalarfield", "reflGrids", "frame"}

NoExc == [kind |-> "none"]

None == [kind |-> "none"]

\* the object ctypes.CDLL returns for a path
Handle(path) == [kind |-> "CDLL", path |-> path]

\* a message that names the missing key only
MissingMessage_NoName(r) ==
    <<"\"po_points\" not defined on ", "po_points", ". Cannot generate PO grid.">>

\* the f-string of the ValueError
MissingMessage(r) ==
    <<"\"po_points\" not defined on ", r["name"], ". Cannot generate PO grid.">>

\* the records a caller may pass: gridsize always, the other keys or not
Records ==
    { [k \in ks |-> CASE k = "gridsize" -> g
                      [] k = "po_points" -> p
                      [] k = "gmode" -> m
                      [] k = "name" -> n] :
        ks \in {x \in SUBSET {"gridsize", "po_points", "gmode", "name"} : "gridsize" \in x},
        g \in {<<MaxPts, MaxPts>>},
        p \in (1..MaxPts) \X (1..MaxPts),
        m \in {"uv", "xy"},
        n \in {"refl1", "refl2"} }

LInit ==
    /\ disk \in SUBSET LibFiles
    /\ rec \in Records
    /\ caller \in {"generatePOGrid", "loadRefllib"}
    /\ pc = "call"
    /\ attempts = <<>>
    /\ lib = None
    /\ exc = NoExc
    /\ native = <<>>
    /\ ret = None

LIdle ==
    /\ disk = {} /\ rec = [k \in {} |-> 0] /\ caller = "none" /\ pc = "idle"
    /\ attempts = <<>> /\ lib = None /\ exc = NoExc /\ native = <<>>
    /\ ret = None

\* the call is entered; both functions start with the first CDLL attempt
Call ==
    /\ pc = "call"
    /\ pc' = "try1"
    /\ UNCHANGED <<disk, rec, caller, attempts, lib, exc, native, ret>>

\* what follows a successful load: return lib, to generatePOGrid or the caller
AfterLoad == IF caller = "loadRefllib" THEN "return_lib" ELSE "check"

\* try: lib = ctypes.CDLL(<candidate i>); except: go on to the next try
TryLoad(i) ==
    /\ pc = CASE i = 1 -> "try1" [] i = 2 -> "try2"
    /\ attempts' = Append(attempts, Join(path_cur, Candidate(i)))
    /\ IF Candidate(i) \in disk
       THEN lib' = Handle(Join(path_cur, Candidate(i))) /\ pc' = AfterLoad
       ELSE lib' = lib /\ pc' = (CASE i = 1 -> "try2" [] i = 2 -> "try3")
    /\ UNCHANGED <<disk, rec, caller, exc, native, ret>>

\* the innermost except clause: the last CDLL call is not guarded
TryLast ==
    /\ pc = "try3"
    /\ attempts' = Append(attempts, Join(path_cur, Candidate(3)))
    /\ IF Candidate(3) \in disk
       THEN lib' = Handle(Join(path_cur, Candidate(3))) /\ pc' = AfterLoad /\ exc' = exc
       ELSE /\ lib' = lib
            /\ pc' = "done"
            /\ exc' = [kind |-> "OSError", path |-> Join(path_cur, Candidate(3))]
    /\ UNCHANGED <<disk, rec, caller, native, ret>>

\* return lib (loadRefllib called on its own)
ReturnLib ==
    /\ pc = "return_lib"
    /\ ret' = lib
    /\ pc' = "done"
    /\ UNCHANGED <<disk, rec, caller, attempts, lib, exc, native>>

\* if "po_points" not in reflparams_py: raise ValueError(f'... {reflparams_py["name"]} ...')
CheckPoPoints ==
    /\ pc = "check"
    /\ IF "po_points" \notin DOMAIN rec
       THEN /\ pc' = "done"
            /\ exc' = IF "name" \in DOMAIN rec
                      THEN [kind |-> "ValueError", msg |-> MissingMessage(rec)]
                      ELSE [kind |-> "KeyError", key |-> "name"]
       ELSE pc' = "build" /\ exc' = exc
    /\ UNCHANGED <<disk, rec, caller, attempts, lib, native, ret>>

\* the native work after `res = PTypes.po_grids()`: fill, allocate, invoke
NativeWork(r, n) ==
    <<[ev |-> "allfill_reflparams"], [ev |-> "allocate_reflcontainer", size |-> n],
      [ev |-> "generatePOGrid", lib |-> lib]>>

\* the object returned at the end of generatePOGrid
POGrid(r, n) ==
    [kind |-> "po_grids",
     grid |-> [shape |-> <<n>>], weights |-> [shape |-> r["po_points"]],
     mode |-> r["gmode"], surf |-> r["name"]]

\* size = po_points[0] * po_points[1]; inp = PStructs.reflparams();
\* res = PTypes.po_grids(); and, if that name exists, the rest of the function
Build ==
    /\ pc = "build"
    /\ pc' = "done"
    /\ LET n == rec["po_points"][1] * rec["po_points"][2] IN
       IF "po_grids" \notin PTypesNames
       THEN /\ native' = Append(native, [ev |-> "reflparams()"])
            /\ exc' = [kind |-> "AttributeError", name |-> "po_grids"]
            /\ ret' = ret
       ELSE /\ native' = Append(native, [ev |-> "reflparams()"]) \o NativeWork(rec, n)
            /\ IF {"gmode", "name"} \subseteq DOMAIN rec
               THEN exc' = exc /\ ret' = POGrid(rec, n)
               ELSE exc' = [kind |-> "KeyError",
                            key |-> IF "gmode" \in DOMAIN rec THEN "name" ELSE "gmode"]
                    /\ ret' = ret
    /\ UNCHANGED <<disk, rec, caller, attempts, lib>>

(***************************************************************************)
(* Natural numbers of any size, for the arithmetic of Python floats:       *)
(* little-endian digit sequences in base 2^15, without leading zeros;      *)
(* <<>> is zero.                                                           *)
(***************************************************************************)
RECURSIVE Pow2(_)
Pow2(k) == IF k = 0 THEN 1 ELSE 2 * Pow2(k - 1)

Base == Pow2(15)

Max(x, y) == IF x >= y THEN x ELSE y
Min(x, y) == IF x <= y THEN x ELSE y

RECURSIVE BNorm(_)
BNorm(a) == IF a = <<>> THEN a
            ELSE IF a[Len(a)] = 0 THEN BNorm(SubSeq(a, 1, Len(a) - 1)) ELSE a

RECURSIVE BFromInt(_)
BFromInt(n) == IF n = 0 THEN <<>> ELSE <<n % Base>> \o BFromInt(n \div Base)

Digit(a, i) == IF i <= Len(a) THEN a[i] ELSE 0

\* -1, 0, 1 as a < b, a = b, a > b
RECURSIVE BCmpFrom(_, _, _)
BCmpFrom(a, b, i) ==
    IF i = 0 THEN 0
    ELSE IF a[i] < b[i] THEN -1
    ELSE IF a[i] > b[i] THEN 1
    ELSE BCmpFrom(a, b, i - 1)

BCmp(a, b) ==
    IF Len(a) < Len(b) THEN -1
    ELSE IF Len(a) > Len(b) THEN 1
    ELSE BCmpFrom(a, b, Len(a))

RECURSIVE BAddFrom(_, _, _, _)
BAddFrom(a, b, i, carry) ==
    IF i > Max(Len(a), Len(b))
    THEN (IF carry = 0 THEN <<>> ELSE <<carry>>)
    ELSE <<(Digit(a, i) + Digit(b, i) + carry) % Base>> \o
         BAddFrom(a, b, i + 1, (Digit(a, i) + Digit(b, i) + carry) \div Base)

BAdd(a, b) == BAddFrom(a, b, 1, 0)

\* a - b for a >= b
RECURSIVE BSubFrom(_, _, _, _)
BSubFrom(a, b, i, borrow) ==
    IF i > Len(a) THEN <<>>
    ELSE IF a[i] - Digit(b, i) - borrow < 0
         THEN <<a[i] - Digit(b, i) - borrow + Base>> \o BSubFrom(a, b, i + 1, 1)
         ELSE <<a[i] - Digit(b, i) - borrow>> \o BSubFrom(a, b, i + 1, 0)

BSub(a, b) == BNorm(BSubFrom(a, b, 1, 0))

\* a * k for a digit k
RECURSIVE BMulSmallFrom(_, _, _, _)
BMulSmallFrom(a, k, i, carry) ==
    IF i > Len(a) THEN (IF carry = 0 THEN <<>> ELSE <<carry>>)
    ELSE <<(a[i] * k + carry) % Base>> \o
         BMulSmallFrom(a, k, i + 1, (a[i] * k + carry) \div Base)

BMulSmall(a, k) == IF k = 0 THEN <<>> ELSE BMulSmallFrom(a, k, 1, 0)

Zeros(n) == [i \in 1..n |-> 0]

\* a * Base^n
BShlDigits(a, n) == IF a = <<>> THEN a ELSE Zeros(n) \o a

RECURSIVE BMulFrom(_, _, _)
BMulFrom(a, b, i) ==
    IF i > Len(b) THEN <<>>
    ELSE BAdd(BShlDigits(BMulSmall(a, b[i]), i - 1), BMulFrom(a, b, i + 1))

BMul(a, b) == BMulFrom(a, b, 1)

\* a * 2^k
BShl(a, k) == BShlDigits(BMulSmall(a, Pow2(k % 15)), k \div 15)

RECURSIVE IntBitLen(_)
IntBitLen(n) == IF n = 0 THEN 0 ELSE 1 + IntBitLen(n \div 2)

BBitLen(a) == IF a = <<>> THEN 0 ELSE 15 * (Len(a) - 1) + IntBitLen(a[Len(a)])

BIsOdd(a) == a # <<>> /\ a[1] % 2 = 1

\* floor(a / 2^k)
BShr(a, k) ==
    IF Len(a) <= k \div 15 THEN <<>>
    ELSE BNorm([i \in 1..(Len(a) - k \div 15) |->
                  (a[i + k \div 15] \div Pow2(k % 15))
                  + (Digit(a, i + k \div 15 + 1) % Pow2(k % 15)) * Pow2(15 - (k % 15))])

\* a mod 2^k
BLow(a, k) == BSub(a, BShl(BShr(a, k), k))

\* the largest d below acc + 2^(bit+1), built from acc by adding bits from
\* bit down, with b * d <= r
RECURSIVE QDigit(_, _, _, _)
QDigit(r, b, bit, acc) ==
    IF bit < 0 THEN acc
    ELSE IF BCmp(BMulSmall(b, acc + Pow2(bit)), r) <= 0
         THEN QDigit(r, b, bit - 1, acc + Pow2(bit))
         ELSE QDigit(r, b, bit - 1, acc)

\* the quotient q of the digits above extended by the digit d, and what
\* remains of r1 once b * d is taken from it
BDivPut(r1, b, q, d) ==
    [q |-> BNorm(<<d>> \o q), r |-> BSub(r1, BMulSmall(b, d))]

\* one step of long division by b # 0: st is the quotient and remainder of
\* the digits above, x the next digit down
BDivStep(x, b, st) ==
    IF st.r = <<>> /\ x = 0
    THEN [q |-> BShlDigits(st.q, 1), r |-> <<>>]
    ELSE BDivPut(<<x>> \o st.r, b, st.q, QDigit(<<x>> \o st.r, b, 14, 0))

\* long division by b # 0 of the number made of the digits of a from the
\* i-th up: the digits above first, then one quotient digit more
RECURSIVE BDivModFrom(_, _, _)
BDivModFrom(a, b, i) ==
    IF i > Len(a) THEN [q |-> <<>>, r |-> <<>>]
    ELSE BDivStep(a[i], b, BDivModFrom(a, b, i + 1))

\* quotient and remainder of a by b # 0
BDivMod(a, b) == BDivModFrom(a, b, 1)

\* 10^k
RECURSIVE BPow10(_)
BPow10(k) == IF k = 0 THEN <<1>> ELSE BMulSmall(BPow10(k - 1), 10)

\* the natural written with the decimal digits ds
RECURSIVE BFromDec(_)
BFromDec(ds) ==
    IF ds = <<>> THEN <<>>
    ELSE BAdd(BMulSmall(BFromDec(SubSeq(ds, 1, Len(ds) - 1)), 10),
              BFromInt(ds[Len(ds)]))

(***************************************************************************)
(* The Python float: IEEE 754 binary64, round to nearest, ties to even.    *)
(* A finite value is s * m * 2^e with s the sign, m a natural below 2^53   *)
(* and e >= -1074; it is kept normalised: m has 53 bits, or e = -1074      *)
(* (subnormal, and zero).  The largest exponent of a 53-bit m is 971.      *)
(***************************************************************************)
Fin(s, m, e) == [kind |-> "fin", s |-> s, m |-> m, e |-> e]
Inf(s) == [kind |-> "inf", s |-> s]
NaN == [kind |-> "nan"]

IsFloat(x) == x.kind \in {"fin", "inf", "nan"}
IsZero(x) == x.kind = "fin" /\ x.m = <<>>

\* the finite value s * m * 2^e, or the infinity when it is out of range
Packed(s, m, e) ==
    IF m = <<>> THEN Fin(s, <<>>, -1074)
    ELSE IF e > 971 THEN Inf(s)
    ELSE Fin(s, m, e)

\* q * 2^x with the low drop bits of q rounded away; sticky tells that
\* a nonzero fraction lies below q
RoundDrop(s, q, sticky, x, drop, kept, c) ==
    IF c > 0 \/ (c = 0 /\ (sticky \/ BIsOdd(kept)))
    THEN (IF BBitLen(BAdd(kept, <<1>>)) > 53
          THEN Packed(s, BShr(BAdd(kept, <<1>>), 1), x + drop + 1)
          ELSE Packed(s, BAdd(kept, <<1>>), x + drop))
    ELSE Packed(s, kept, x + drop)

\* the value (q + f) * 2^x, where the fraction f in [0, 1) is nonzero iff
\* sticky, rounded to the nearest binary64, ties to even
RoundBits(s, q, sticky, x) ==
    IF Max(BBitLen(q) - 53, -1074 - x) <= 0
    THEN \* q fits: shift it left as far as the exponent range asks
         (IF q = <<>> THEN Fin(s, <<>>, -1074)
          ELSE Packed(s, BShl(q, Min(53 - BBitLen(q), x + 1074)),
                      x - Min(53 - BBitLen(q), x + 1074)))
    ELSE RoundDrop(s, q, sticky, x, Max(BBitLen(q) - 53, -1074 - x),
                   BShr(q, Max(BBitLen(q) - 53, -1074 - x)),
                   BCmp(BLow(q, Max(BBitLen(q) - 53, -1074 - x)),
                        BShl(<<1>>, Max(BBitLen(q) - 53, -1074 - x) - 1)))

\* num / den * 2^x rounded, from the quotient and remainder dm of num by den
RoundQuot(s, dm, x) == RoundBits(s, dm.q, dm.r # <<>>, x)

\* p / q * 2^e for naturals p, q # 0, rounded to the nearest binary64: p is
\* shifted so that the quotient has 55 or 56 bits
RoundRat(s, p, q, e) ==
    IF p = <<>> THEN Fin(s, <<>>, -1074)
    ELSE IF 55 - (BBitLen(p) - BBitLen(q)) >= 0
         THEN RoundQuot(s, BDivMod(BShl(p, 55 - (BBitLen(p) - BBitLen(q))), q),
                        e - (55 - (BBitLen(p) - BBitLen(q))))
         ELSE RoundQuot(s, BDivMod(p, BShl(q, (BBitLen(p) - BBitLen(q)) - 55)),
                        e - (55 - (BBitLen(p) - BBitLen(q))))

\* float * float
FMul(x, y) ==
    IF x.kind = "nan" \/ y.kind = "nan" THEN NaN
    ELSE IF x.kind = "inf" \/ y.kind = "inf"
         THEN (IF IsZero(x) \/ IsZero(y) THEN NaN ELSE Inf(x.s * y.s))
    ELSE RoundBits(x.s * y.s, BMul(x.m, y.m), FALSE, x.e + y.e)

\* float / float; a zero divisor raises ZeroDivisionError
FDiv(x, y) ==
    IF IsZero(y) THEN [kind |-> "ZeroDivisionError"]
    ELSE IF x.kind = "nan" \/ y.kind = "nan" THEN NaN
    ELSE IF x.kind = "inf" THEN (IF y.kind = "inf" THEN NaN ELSE Inf(x.s * y.s))
    ELSE IF y.kind = "inf" THEN Fin(x.s * y.s, <<>>, -1074)
    ELSE RoundRat(x.s * y.s, x.m, y.m, x.e - y.e)

\* -x
FNeg(x) == IF x.kind = "nan" THEN x ELSE [x EXCEPT !.s = -x.s]

\* x == y of two floats
FEq(x, y) ==
    /\ x.kind # "nan" /\ y.kind # "nan"
    /\ \/ x = y
       \/ IsZero(x) /\ IsZero(y)

\* the float literal written with the decimal digits ds, times 10^k
DecLit(ds, k) ==
    IF k >= 0 THEN RoundBits(1, BMul(BFromDec(ds), BPow10(k)), FALSE, 0)
    ELSE RoundRat(1, BFromDec(ds), BPow10(-k), 0)

\* float(n) of a non-negative int n
FromInt(n) == RoundBits(1, BFromInt(n), FALSE, 0)

\* the largest finite float and the least positive one
FloatMax == Fin(1, BSub(BShl(<<1>>, 53), <<1>>), 971)
FloatMin == Fin(1, <<1>>, -1074)

(***************************************************************************)
(* Enums.py: the catalogue.  An enumeration is the sequence of its         *)
(* declarations <<name, value>> in source order.  An int value n is        *)
(* [int |-> n], a string value [str |-> s], None is None, and a Units      *)
(* value is the tuple <<factor, category>>.                                *)
(***************************************************************************)
MaxNum == 5     \* the plain numbers are the floats of -MaxNum..MaxNum, FloatMin and FloatMax

IntValue(n) == [int |-> n]
StrValue(s) == [str |-> s]

FieldComponents ==
    << <<"Ex", IntValue(0)>>, <<"Ey", IntValue(1)>>, <<"Ez", IntValue(2)>>,
       <<"Hx", IntValue(3)>>, <<"Hy", IntValue(4)>>, <<"Hz", IntValue(5)>>, <<"NONE", None>> >>

CurrentComponents ==
    << <<"Jx", IntValue(0)>>, <<"Jy", IntValue(1)>>, <<"Jz", IntValue(2)>>,
       <<"Mx", IntValue(3)>>, <<"My", IntValue(4)>>, <<"Mz", IntValue(5)>> >>

Projections ==
    << <<"xy", IntValue(0)>>, <<"yz", IntValue(1)>>, <<"zx", IntValue(2)>>,
       <<"yx", IntValue(3)>>, <<"zy", IntValue(4)>>, <<"xz", IntValue(5)>> >>

\* the body of class Units: each name is bound to its tuple as the body runs
pi == DecLit(<<3, 1, 4, 1, 5, 9, 2, 6, 5, 3, 5, 8, 9, 7, 9, 3>>, -15)
M == <<DecLit(<<1>>, 3), "spatial">>
CM == <<FMul(DecLit(<<1>>, -2), M[1]), "spatial">>
MM == <<FMul(DecLit(<<1>>, -3), M[1]), "spatial">>
UM == <<FMul(DecLit(<<1>>, -6), M[1]), "spatial">>
NM == <<FMul(DecLit(<<1>>, -9), M[1]), "spatial">>
IN_ == <<FMul(DecLit(<<2, 5, 4>>, -1), MM[1]), "spatial">>
MIL == <<FMul(IN_[1], DecLit(<<1>>, -3)), "spatial">>
THOU == <<FMul(IN_[1], DecLit(<<1>>, -3)), "spatial">>
UIN == <<FMul(IN_[1], DecLit(<<1>>, -6)), "spatial">>
FT == <<FMul(FromInt(12), IN_[1]), "spatial">>
DEG == <<DecLit(<<1>>, 0), "angular">>
AM == <<DecLit(<<6, 0>>, 0), "angular">>
AS == <<DecLit(<<3, 6, 0, 0>>, 0), "angular">>
RAD == <<FMul(FDiv(FromInt(180), pi), DEG[1]), "angular">>
MRAD == <<FMul(RAD[1], DecLit(<<1>>, -3)), "angular">>
URAD == <<FMul(RAD[1], DecLit(<<1>>, -6)), "angular">>

Units ==
    << <<"M", M>>, <<"CM", CM>>, <<"MM", MM>>, <<"UM", UM>>, <<"NM", NM>>,
       <<"IN", IN_>>, <<"MIL", MIL>>, <<"THOU", THOU>>, <<"UIN", UIN>>,
       <<"FT", FT>>, <<"DEG", DEG>>, <<"AM", AM>>, <<"AS", AS>>,
       <<"RAD", RAD>>, <<"MRAD", MRAD>>, <<"URAD", URAD>> >>

Scales == << <<"LIN", IntValue(0)>>, <<"dB", IntValue(2)>> >>

Objects ==
    << <<"ELEMENT", StrValue("elements")>>, <<"GROUP", StrValue("groups")>>,
       <<"FRAME", StrValue("frames")>>, <<"FIELD", StrValue("fields")>>,
       <<"CURRENT", StrValue("currents")>> >>

Modes == << <<"REL", IntValue(0)>>, <<"ABS", IntValue(1)>> >>

AperShapes == << <<"ELL", IntValue(0)>>, <<"RECT", IntValue(1)>> >>

OptDoF ==
    << <<"TX", IntValue(0)>>, <<"TY", IntValue(1)>>, <<"TZ", IntValue(2)>>,
       <<"RX", IntValue(3)>>, <<"RY", IntValue(4)>>, <<"RZ", IntValue(5)>> >>

Dielectrics == << <<"BK7", IntValue(1)>>, <<"FS", IntValue(2)>>, <<"K5", IntValue(3)>> >>

\* the classes the module defines when it is imported: the declarations of
\* each, with the values its body computed
Enums ==
    [FieldComponents |-> FieldComponents, CurrentComponents |-> CurrentComponents,
     Projections |-> Projections, Units |-> Units, Scales |-> Scales,
     Objects |-> Objects, Modes |-> Modes, AperShapes |-> AperShapes,
     OptDoF |-> OptDoF, Dielectrics |-> Dielectrics]

\* the base class of each
BaseClass ==
    [FieldComponents |-> "CustomEnumScalar", CurrentComponents |-> "CustomEnumScalar",
     Projections |-> "CustomEnumScalar", Units |-> "CustomEnumTuple",
     Scales |-> "CustomEnumScalar", Objects |-> "CustomEnumString",
     Modes |-> "CustomEnumScalar", AperShapes |-> "CustomEnumScalar",
     OptDoF |-> "CustomEnumScalar", Dielectrics |-> "CustomEnumScalar"]

\* every Class.NAME that can be written
Attributes ==
    UNION {{<<cls, classes[cls][i][1]>> : i \in DOMAIN classes[cls]} : cls \in DOMAIN classes}

\* the declaration that binds name in cls
DeclIndex(cls, name) == CHOOSE i \in DOMAIN classes[cls] : classes[cls][i][1] = name

\* Enum class creation: a declaration whose value equals that of an earlier
\* one adds no member, its name is an alias of the earlier member
Canonical(cls, i) ==
    CHOOSE j \in 1..i :
        /\ classes[cls][j][2] = classes[cls][i][2]
        /\ \A k \in 1..(j - 1) : classes[cls][k][2] # classes[cls][i][2]

\* the member that Class.NAME evaluates to
Member(cls, name) ==
    [cls |-> cls,
     name |-> classes[cls][Canonical(cls, DeclIndex(cls, name))][1],
     value |-> classes[cls][Canonical(cls, DeclIndex(cls, name))][2]]

NotImplemented == [kind |-> "NotImplemented"]
TypeError == [kind |-> "TypeError"]
AttributeError == [kind |-> "AttributeError"]
Text(s) == [kind |-> "str", text |-> s]

\* __str__ of the three base classes
__str__(self) == Text(self.name)

\* a __rmul__ that divides by value[0] instead of multiplying
__rmul___Div(self, other) ==
    IF BaseClass[self.cls] = "CustomEnumTuple" THEN FDiv(other, self.value[1])
    ELSE NotImplemented

\* __rmul__: CustomEnumTuple multiplies by value[0], CustomEnumString
\* returns NotImplemented, CustomEnumScalar defines none
__rmul__(self, other) ==
    IF BaseClass[self.cls] = "CustomEnumTuple" THEN FMul(other, self.value[1])
    ELSE NotImplemented

\* CustomEnumTuple.rdiv; the other classes have no such attribute
rdiv(self, other) ==
    IF BaseClass[self.cls] = "CustomEnumTuple" THEN FDiv(other, self.value[1])
    ELSE AttributeError

\* __rtruediv__: only CustomEnumString defines it, to return NotImplemented
__rtruediv__(self, other) == NotImplemented

\* other * self and other / self for a float other: float's own method
\* does not know the member, so the member's reflected method is asked; no
\* method, or NotImplemented, ends in TypeError
Times(other, self) ==
    IF __rmul__(self, other) = NotImplemented THEN TypeError
    ELSE __rmul__(self, other)

Over(other, self) ==
    IF __rtruediv__(self, other) = NotImplemented THEN TypeError
    ELSE __rtruediv__(self, other)

\* the plain numbers handed to the operations
Numbers ==
    {FromInt(n) : n \in 0..MaxNum} \cup {FNeg(FromInt(n)) : n \in 1..MaxNum}
    \cup {FloatMin, FloatMax}

\* one evaluation step on the member Class.NAME, with its outcome
Step(op, cls, name, o) == [op |-> op, cls |-> cls, name |-> name, out |-> o]

EInit == /\ classes = Enums
         /\ orig \in Numbers
         /\ steps = <<>>
         /\ out = orig

EIdle == /\ classes = None
         /\ orig = None
         /\ steps = <<>>
         /\ out = None

\* a new expression over the number v
Take(v) ==
    /\ steps # <<>>
    /\ orig' = v
    /\ steps' = <<>>
    /\ out' = v
    /\ UNCHANGED classes

\* str(Class.NAME)
StrOf(cls, name) ==
    /\ steps = <<>>
    /\ out' = __str__(Member(cls, name))
    /\ steps' = <<Step("str", cls, name, out')>>
    /\ UNCHANGED <<classes, orig>>

\* out * Class.NAME, on the number given or on the outcome of rdiv
Multiply(cls, name) ==
    /\ IsFloat(out)
    /\ steps = <<>> \/ (Len(steps) = 1 /\ steps[1].op = "rdiv")
    /\ out' = Times(out, Member(cls, name))
    /\ steps' = Append(steps, Step("mul", cls, name, out'))
    /\ UNCHANGED <<classes, orig>>

\* Class.NAME.rdiv(out)
ReverseDivide(cls, name) ==
    /\ steps = <<>>
    /\ out' = rdiv(Member(cls, name), out)
    /\ steps' = <<Step("rdiv", cls, name, out')>>
    /\ UNCHANGED <<classes, orig>>

\* out / Class.NAME
Divide(cls, name) ==
    /\ steps = <<>>
    /\ out' = Over(out, Member(cls, name))
    /\ steps' = <<Step("truediv", cls, name, out')>>
    /\ UNCHANGED <<classes, orig>>

(***************************************************************************)
(* setup.py: version resolution.  A text is the sequence of its            *)
(* characters; the version file is the sequence of its lines, as           *)
(* readlines() returns them.                                               *)
(***************************************************************************)
MaxLines == 3   \* the version file has 0..MaxLines lines

Marker == <<"_", "_", "v", "e", "r", "s", "i", "o", "n", "_", "_", " ", "=">>
default_v == <<"0", ".", "0", ".", "0">>

Whitespace == {" ", "\t", "\n", "\r"}
Quotes == {"'", "\""}

\* sub in text: the text holds sub from position i on
OccursAt(sub, text, i) ==
    /\ i + Len(sub) - 1 <= Len(text)
    /\ \A k \in 1..Len(sub) : text[i + k - 1] = sub[k]

Contains(sub, text) == \E i \in 1..Len(text) : OccursAt(sub, text, i)

\* text.split(sep)[-1] for a one-character sep: what follows the last sep,
\* the whole text when it holds none
SplitLast(text, sep) ==
    IF \E i \in 1..Len(text) : text[i] = sep
    THEN SubSeq(text, (CHOOSE i \in 1..Len(text) :
                          text[i] = sep /\ \A k \in (i + 1)..Len(text) : text[k] # sep) + 1,
                Len(text))
    ELSE text

\* text.strip(chars)
RECURSIVE Strip(_, _)
Strip(text, chars) ==
    IF text = <<>> THEN text
    ELSE IF text[1] \in chars THEN Strip(Tail(text), chars)
    ELSE IF text[Len(text)] \in chars THEN Strip(SubSeq(text, 1, Len(text) - 1), chars)
    ELSE text

\* line.split('=')[-1].strip().strip("'\"")
Extract(line) == Strip(Strip(SplitLast(line, "="), Whitespace), Quotes)

\* the lines a version file is made of
VersionLine == Marker \o <<" ", "'", "2", ".", "4", ".", "1", "'", "\n">>
PaddedLine == <<" ">> \o Marker \o <<" ", " ", "\"", "0", ".", "9", "\"", " ", "\n">>
EqualsLine == Marker \o <<" ", "\"", "1", "=", "2", "\"", "\n">>
TightLine == <<"_", "_", "v", "e", "r", "s", "i", "o", "n", "_", "_", "=", "'", "3", "'", "\n">>
NameLine == <<"n", "a", "m", "e", " ", "=", " ", "'", "P", "y", "P", "O", "'", "\n">>
ImportLine == <<"i", "m", "p", "o", "r", "t", " ", "o", "s", "\n">>

Lines == {VersionLine, PaddedLine, EqualsLine, TightLine, NameLine, ImportLine}

Files == UNION {[1..n -> Lines] : n \in 0..MaxLines}

VInit == /\ lines \in Files
         /\ lineno = 1
         /\ version = default_v
         /\ scanning = TRUE

VIdle == /\ lines = <<>>
         /\ lineno = 1
         /\ version = default_v
         /\ scanning = FALSE

\* one turn of the loop on a line that holds the marker: extract and break
Found ==
    /\ scanning
    /\ lineno <= Len(lines)
    /\ Contains(Marker, lines[lineno])
    /\ version' = Extract(lines[lineno])
    /\ scanning' = FALSE
    /\ UNCHANGED <<lines, lineno>>

\* one turn of the loop on any other line
Skip ==
    /\ scanning
    /\ lineno <= Len(lines)
    /\ ~Contains(Marker, lines[lineno])
    /\ lineno' = lineno + 1
    /\ UNCHANGED <<lines, version, scanning>>

\* the loop runs out of lines
Exhausted ==
    /\ scanning
    /\ lineno > Len(lines)
    /\ scanning' = FALSE
    /\ UNCHANGED <<lines, lineno, version>>

(***************************************************************************)
(* setup.py: build_ext.run and build_ext.build_cmake.  A path is the       *)
(* sequence of its segments; an absolute path starts with "/", and <<>> is *)
(* the relative path ".".                                                  *)
(***************************************************************************)
IsAbsolute(p) == p # <<>> /\ p[1] = "/"

\* pathlib.Path(p).absolute() in a process whose working directory is wd;
\* os.chdir(p) makes it the working directory
Absolute(wd, p) == IF IsAbsolute(p) THEN p ELSE wd \o p

\* p.parent
Parent(p) == IF Len(p) <= 1 THEN p ELSE SubSeq(p, 1, Len(p) - 1)

\* the directory p and the directories above it
Parents(p) == {SubSeq(p, 1, k) : k \in 1..Len(p)}

\* self.build_lib of the build_ext command
build_lib == <<"build", "lib">>

\* self.get_ext_fullpath(name): the file of the extension below build_lib
\* (its suffix left out of the last segment)
get_ext_fullpath(name) == build_lib \o name

config == "Release --j4"

cmake_args(libdir) ==
    << <<"-DCMAKE_LIBRARY_OUTPUT_DIRECTORY=", libdir>>,
       <<"-DCMAKE_BUILD_TYPE=", config>> >>

build_args == <<"--config", config>>

\* the argument lists handed to self.spawn
ConfigureCmd(source, libdir) == <<"cmake", source>> \o cmake_args(libdir)
CompileCmd(os) ==
    IF os # "nt" THEN <<"cmake", "--build", ".">> \o build_args
    ELSE <<"cmake", "--build", ".">>

\* a self.spawn that returns whatever the exit code of the program is
spawn_NoRaise(dry, exit) ==
    IF dry THEN [ran |-> FALSE, exit |-> 0, raised |-> FALSE]
    ELSE [ran |-> TRUE, exit |-> exit, raised |-> FALSE]

\* self.spawn(cmd) of a command whose program would end with the exit code
\* exit: a dry run logs the command and returns; otherwise the program is
\* run, and a nonzero exit code raises DistutilsExecError
spawn(dry, exit) ==
    IF dry THEN [ran |-> FALSE, exit |-> 0, raised |-> FALSE]
    ELSE [ran |-> TRUE, exit |-> exit, raised |-> exit # 0]

\* the names of the extensions: setup() declares the first, PyPO/libs
ExtNames == <<"libs", "libs_b", "libs_c", "libs_d">>

Extensions == {[i \in 1..n |-> <<"PyPO", ExtNames[i]>>] : n \in 1..MaxExts}

\* the directories setup.py is run from
WorkDirs == {<<"/", "PyPO">>, <<"/", "home", "PyPO">>}

\* self.build_temp: below the working directory (the default), the working
\* directory itself, or a directory elsewhere
BuildTemps == {<<"build", "temp">>, <<>>, <<"/", "tmp", "pypo">>}

ExitCodes == {0, 1}

BInit == /\ extensions \in Extensions
         /\ dry_run \in BOOLEAN
         /\ os_name \in {"posix", "nt"}
         /\ build_temp \in BuildTemps
         /\ workdir \in WorkDirs
         /\ cwd = <<>>
         /\ began = workdir
         /\ ext = 0
         /\ made = Parents(workdir)
         /\ spawned = <<>>
         /\ bpc = "run"

BIdle == /\ extensions = <<>>
         /\ dry_run = FALSE
         /\ os_name = "posix"
         /\ build_temp = <<>>
         /\ workdir = <<"/">>
         /\ cwd = <<>>
         /\ began = <<"/">>
         /\ ext = 0
         /\ made = {}
         /\ spawned = <<>>
         /\ bpc = "idle"

\* for ext in self.extensions: the next extension, self.build_cmake(ext) up
\* to os.chdir(str(build_temp))
Enter ==
    /\ bpc = "run"
    /\ ext < Len(extensions)
    /\ ext' = ext + 1
    /\ cwd' = Absolute(workdir, <<>>)
    /\ began' = workdir
    /\ made' = made \cup Parents(Absolute(workdir, build_temp))
    /\ workdir' = Absolute(workdir, build_temp)
    /\ bpc' = "configure"
    /\ UNCHANGED <<extensions, dry_run, os_name, build_temp, spawned>>

\* self.spawn(['cmake', str(cwd)] + cmake_args)
Configure ==
    /\ bpc = "configure"
    /\ \E exit \in ExitCodes :
         /\ spawned' = Append(spawned,
               [ext |-> ext, phase |-> "configure", at |-> workdir,
                cmd |-> ConfigureCmd(cwd,
                          Absolute(cwd, Parent(get_ext_fullpath(extensions[ext])))),
                end |-> spawn(dry_run, exit)])
         /\ bpc' = IF spawn(dry_run, exit).raised THEN "raised" ELSE "compile"
    /\ UNCHANGED <<extensions, dry_run, os_name, build_temp, workdir, cwd,
                   began, ext, made>>

\* if not self.dry_run: self.spawn(['cmake', '--build', '.'] ...)
Compile ==
    /\ bpc = "compile"
    /\ ~dry_run
    /\ \E exit \in ExitCodes :
         /\ spawned' = Append(spawned,
               [ext |-> ext, phase |-> "compile", at |-> workdir,
                cmd |-> CompileCmd(os_name),
                end |-> spawn(dry_run, exit)])
         /\ bpc' = IF spawn(dry_run, exit).raised THEN "raised" ELSE "restore"
    /\ UNCHANGED <<extensions, dry_run, os_name, build_temp, workdir, cwd,
                   began, ext, made>>

\* if not self.dry_run: a dry run invokes no compile phase
NoCompile ==
    /\ bpc = "compile"
    /\ dry_run
    /\ bpc' = "restore"
    /\ UNCHANGED <<extensions, dry_run, os_name, build_temp, workdir, cwd,
                   began, ext, made, spawned>>

\* os.chdir(str(cwd)), and build_cmake returns to the loop of run
Restore ==
    /\ bpc = "restore"
    /\ workdir' = Absolute(workdir, cwd)
    /\ bpc' = "run"
    /\ UNCHANGED <<extensions, dry_run, os_name, build_temp, cwd, began, ext,
                   made, spawned>>

\* the loop of run is over
Finish ==
    /\ bpc = "run"
    /\ ext = Len(extensions)
    /\ bpc' = "done"
    /\ UNCHANGED <<extensions, dry_run, os_name, build_temp, workdir, cwd,
                   began, ext, made, spawned>>

vars == <<cvars, lvars, evars, svars, bvars>>

Init == CInit /\ LIdle /\ EIdle /\ VIdle /\ BIdle

\* transposes and positional sets, in any order
SetInRange == \E idx \in 0..5, item \in Items : Set(idx, item)

Next ==
    \/ SetInRange /\ UNCHANGED <<lvars, evars, svars, bvars>>
    \/ T /\ UNCHANGED <<lvars, evars, svars, bvars>>
    \/ H /\ UNCHANGED <<lvars, evars, svars, bvars>>

Spec == Init /\ [][Next]_vars

\* positional access with any index
GetAny == \E idx \in Indices : Get(idx)
SetAny == \E idx \in Indices, item \in Items : Set(idx, item)

NextAccess ==
    \/ GetAny /\ UNCHANGED <<lvars, evars, svars, bvars>>
    \/ SetAny /\ UNCHANGED <<lvars, evars, svars, bvars>>

SpecAccess == Init /\ [][NextAccess]_vars

\* calls of loadRefllib and generatePOGrid
InitBind == CIdle /\ LInit /\ EIdle /\ VIdle /\ BIdle

NextBind ==
    \/ Call /\ UNCHANGED <<cvars, evars, svars, bvars>>
    \/ (\E i \in 1..2 : TryLoad(i)) /\ UNCHANGED <<cvars, evars, svars, bvars>>
    \/ TryLast /\ UNCHANGED <<cvars, evars, svars, bvars>>
    \/ ReturnLib /\ UNCHANGED <<cvars, evars, svars, bvars>>
    \/ CheckPoPoints /\ UNCHANGED <<cvars, evars, svars, bvars>>
    \/ Build /\ UNCHANGED <<cvars, evars, svars, bvars>>

SpecBind == InitBind /\ [][NextBind]_vars

\* expressions over the members of the catalogue
InitEnums == CIdle /\ LIdle /\ EInit /\ VIdle /\ BIdle

NextEnums ==
    \/ (\E v \in Numbers : Take(v)) /\ UNCHANGED <<cvars, lvars, svars, bvars>>
    \/ (\E a \in Attributes : StrOf(a[1], a[2])) /\ UNCHANGED <<cvars, lvars, svars, bvars>>
    \/ (\E a \in Attributes : Multiply(a[1], a[2])) /\ UNCHANGED <<cvars, lvars, svars, bvars>>
    \/ (\E a \in Attributes : ReverseDivide(a[1], a[2])) /\ UNCHANGED <<cvars, lvars, svars, bvars>>
    \/ (\E a \in Attributes : Divide(a[1], a[2])) /\ UNCHANGED <<cvars, lvars, svars, bvars>>

SpecEnums == InitEnums /\ [][NextEnums]_vars

\* the version resolution over a version file
InitVersion == CIdle /\ LIdle /\ EIdle /\ VInit /\ BIdle

NextVersion ==
    \/ Found /\ UNCHANGED <<cvars, lvars, evars, bvars>>
    \/ Skip /\ UNCHANGED <<cvars, lvars, evars, bvars>>
    \/ Exhausted /\ UNCHANGED <<cvars, lvars, evars, bvars>>

SpecVersion == InitVersion /\ [][NextVersion]_vars

\* the build_ext command run over its extensions
InitBuild == CIdle /\ LIdle /\ EIdle /\ VIdle /\ BInit

NextBuild ==
    \/ Enter /\ UNCHANGED <<cvars, lvars, evars, svars>>
    \/ Configure /\ UNCHANGED <<cvars, lvars, evars, svars>>
    \/ Compile /\ UNCHANGED <<cvars, lvars, evars, svars>>
    \/ NoCompile /\ UNCHANGED <<cvars, lvars, evars, svars>>
    \/ Restore /\ UNCHANGED <<cvars, lvars, evars, svars>>
    \/ Finish /\ UNCHANGED <<cvars, lvars, evars, svars>>

SpecBuild == InitBuild /\ [][NextBuild]_vars

(***************************************************************************)
(* Claims about resContainer                                               *)
(***************************************************************************)
Positional == result.op \in {"get", "set"}

RaisedIndexError ==
    /\ result.ret.kind = "IndexError"
    /\ result.ret.msg = <<"Index out of range: ", result.idx>>
    /\ attrs = result.before

\* C3 as stated: positional get and set with any index outside 0..5 (every
\* index >= 6 and every negative index) fail with an IndexError naming the
\* index and leave the six components unchanged.
C3_AnyIndexOutside0To5Raises ==
    (Positional /\ result.idx \notin 0..5) => RaisedIndexError

\* C3 as amended: positional get and set with an index >= 6 or < -6 fail with
\* an IndexError naming the index and leave the six components unchanged
\* (the indices -6..-1 address the components from the end).
C3_IndexBeyondListRangeRaises ==
    (Positional /\ (result.idx >= 6 \/ result.idx < -6)) => RaisedIndexError

C3_Witness ==
    /\ result.op = "set"
    /\ result.idx < -6
    /\ result.ret.kind = "IndexError"

\* C4: all six components have one common shape, which is the container's
\* recorded shape, and size is shape[0] * shape[1].
C4_ComponentsHaveRecordedShape ==
    /\ \A k \in 1..6 : ArrShape(attrs[memlist[k]]) = shape
    /\ size = shape[1] * shape[2]

\* the labels of a container with the given tag, written out
LabelsOf(tag) ==
    IF tag = FieldsTag THEN <<"Ex", "Ey", "Ez", "Hx", "Hy", "Hz">>
    ELSE <<"Jx", "Jy", "Jz", "Mx", "My", "Mz">>

\* C5: the labels are [t0 x, t0 y, t0 z, t1 x, t1 y, t1 z]; container[i] of a
\* fresh container is the i-th constructor argument; container[i] is always
\* the attribute with label i; after container[i] = B both are B and the
\* other five components are unchanged.
C5_LabelsAndPositionalAccess ==
    /\ memlist = LabelsOf(rtype)
    /\ (result.op = "get" /\ result.idx \in 0..5) =>
          /\ result.ret.kind = "ok"
          /\ result.ret.val = attrs[LabelsOf(rtype)[result.idx + 1]]
          /\ nsets = 0 => result.ret.val = MkArr(result.idx, shape[1], shape[2])
    /\ (result.op = "set" /\ result.idx \in 0..5) =>
          /\ result.ret.kind = "ok"
          /\ attrs[LabelsOf(rtype)[result.idx + 1]] = result.item
          /\ GetItem(memlist, attrs, result.idx).val = result.item
          /\ \A j \in (0..5) \ {result.idx} :
                attrs[LabelsOf(rtype)[j + 1]] = result.before[LabelsOf(rtype)[j + 1]]

C5_Witness ==
    /\ result.op = "get"
    /\ result.idx = 3
    /\ nsets = 1
    /\ result.ret.kind = "ok"
    /\ result.ret.val = MkArr(6, shape[1], shape[2])

\* C6: T applied twice in a row, and H applied twice in a row, restore all six
\* components; each application returns the container itself.
C6_TwiceRestores ==
    /\ Len(hist) = 2 => attrs = hist[1].before
    /\ result.op \in {"T", "H"} => result.ret.val = "self"

C6_Witness ==
    /\ Len(hist) = 2
    /\ hist[2].op = "H"
    /\ shape[1] # shape[2]
    /\ attrs # hist[2].before
    /\ nsets = 1

(***************************************************************************)
(* Claims about BindRefl                                                   *)
(***************************************************************************)
POGridCallEnded == caller = "generatePOGrid" /\ pc = "done"

NoNativeWork == native = <<>>

MissingConfiguration ==
    /\ exc.kind = "ValueError"
    /\ \E k \in 1..Len(exc.msg) : exc.msg[k] = rec["name"]
    /\ NoNativeWork

\* C1 as stated: for every record without po_points, generatePOGrid ends in
\* the ValueError whose message contains the record's name, before any native
\* record is created or filled and before any entry point is invoked, whether
\* the engine library can be loaded or not.
C1_MissingPoPointsAlwaysValueError ==
    (POGridCallEnded /\ "po_points" \notin DOMAIN rec /\ "name" \in DOMAIN rec)
        => MissingConfiguration

\* C1 as amended: for every record without po_points that has a name, when one
\* of the three library files loads, generatePOGrid ends in the ValueError
\* whose message contains the record's name, with no native record created or
\* filled and no entry point invoked; when none loads, the load failure
\* propagates instead and the ValueError is not raised.
C1_MissingPoPointsValueErrorOnceLoaded ==
    (POGridCallEnded /\ "po_points" \notin DOMAIN rec /\ "name" \in DOMAIN rec)
        => /\ disk # {} => MissingConfiguration
           /\ disk = {} => exc.kind = "OSError" /\ NoNativeWork

C1_Witness ==
    /\ POGridCallEnded
    /\ "po_points" \notin DOMAIN rec
    /\ "name" \in DOMAIN rec
    /\ exc.kind = "ValueError"
    /\ Len(attempts) = 2

\* C2: for every record with po_points, gmode and name, when the engine
\* library loads, generatePOGrid completes and returns the object bundling the
\* flat grid of po_points[0] * po_points[1] points, the weights shaped by
\* po_points, mode = gmode and surf = name.
C2_ReturnsPOGrid ==
    (POGridCallEnded /\ {"po_points", "gmode", "name"} \subseteq DOMAIN rec /\ disk # {})
        => /\ exc = NoExc
           /\ ret = [kind |-> "po_grids",
                     grid |-> [shape |-> <<rec["po_points"][1] * rec["po_points"][2]>>],
                     weights |-> [shape |-> rec["po_points"]],
                     mode |-> rec["gmode"], surf |-> rec["name"]]

InDir(name) == <<"PyPO", name>>

\* C10: the library files are attempted in the order pyporefl.dll,
\* libpyporefl.so, libpyporefl.dylib, each in the binding module's directory;
\* a candidate is attempted only after every earlier one failed; the handle is
\* that of the first candidate that loads and nothing is attempted after it;
\* when all three fail the failure of libpyporefl.dylib propagates.
C10_LoadOrder ==
    LET order == <<InDir("pyporefl.dll"), InDir("libpyporefl.so"),
                   InDir("libpyporefl.dylib")>> IN
    /\ Len(attempts) <= 3
    /\ \A k \in 1..Len(attempts) :
          /\ attempts[k] = order[k]
          /\ k < Len(attempts) => attempts[k][2] \notin disk
    /\ lib # None =>
          /\ lib = [kind |-> "CDLL", path |-> attempts[Len(attempts)]]
          /\ lib.path[2] \in disk
          /\ pc \notin {"try1", "try2", "try3"}
    /\ (pc = "done" /\ caller = "loadRefllib") =>
          /\ exc = NoExc => (ret = lib /\ lib # None)
          /\ exc # NoExc =>
                /\ disk = {}
                /\ attempts = order
                /\ exc = [kind |-> "OSError", path |-> InDir("libpyporefl.dylib")]
    /\ (pc = "done" /\ disk # {}) => lib # None

C10_Witness ==
    /\ caller = "loadRefllib"
    /\ pc = "done"
    /\ Len(attempts) = 3
    /\ ret = [kind |-> "CDLL", path |-> InDir("libpyporefl.dylib")]

(***************************************************************************)
(* Claims about the Enums catalogue                                        *)
(***************************************************************************)
\* the name is declared in the spatial part of Units
Spatial(cls, name) ==
    cls = "Units" /\ classes[cls][DeclIndex(cls, name)][2][2] = "spatial"

\* the factor of the Units member written Units.name
Factor(name) == Member("Units", name).value[1]

\* the expression evaluated is v * U, U.rdiv(v), or U.rdiv(v) * U, for a
\* spatial member U
Converted == Len(steps) = 1 /\ steps[1].op = "mul" /\ Spatial(steps[1].cls, steps[1].name)
Reversed == Len(steps) = 1 /\ steps[1].op = "rdiv" /\ Spatial(steps[1].cls, steps[1].name)
RoundTrip ==
    /\ Len(steps) = 2
    /\ steps[1].op = "rdiv" /\ steps[2].op = "mul"
    /\ Spatial(steps[1].cls, steps[1].name)
    /\ steps[2].cls = steps[1].cls /\ steps[2].name = steps[1].name

\* |a - b| of two naturals
AbsDiff(a, b) == IF BCmp(a, b) >= 0 THEN BSub(a, b) ELSE BSub(b, a)

\* |x - v| <= 2^-51 * |v| for two floats
Close(x, v) ==
    /\ x.kind = "fin" /\ v.kind = "fin"
    /\ \/ IsZero(x) /\ IsZero(v)
       \/ /\ x.s = v.s
          /\ x.e - v.e \in {-1, 0, 1}
          /\ BCmp(BShl(AbsDiff(BShl(x.m, x.e - Min(x.e, v.e)),
                               BShl(v.m, v.e - Min(x.e, v.e))), 51),
                  BShl(v.m, v.e - Min(x.e, v.e))) <= 0

\* a finite float that has all of its 53 bits (is neither zero nor subnormal)
Normal(x) == x.kind = "fin" /\ BBitLen(x.m) = 53

\* C7: for every enumeration of the catalogue and every name declared in
\* it, MIL and THOU of Units and NONE of FieldComponents included,
\* str(Class.NAME) is the name NAME that was written.
C7_StrIsTheNameWritten ==
    \A i \in DOMAIN steps :
        steps[i].op = "str" => steps[i].out = Text(steps[i].name)

\* C8, as stated: for every spatial member U of Units with factor f and
\* every finite number v, v * U is v x f, U.rdiv(v) is v / f, and the round
\* trip U.rdiv(v) * U equals v.
C8_RoundTripIsExact ==
    /\ Converted => out = FMul(orig, Factor(steps[1].name))
    /\ Reversed => out = FDiv(orig, Factor(steps[1].name))
    /\ RoundTrip => FEq(out, orig)

\* C8, amended: v * U is the float product v x f and U.rdiv(v) the float
\* quotient v / f; the round trip gives v back to within a relative error
\* of 2^-51 whenever v is zero, or the quotient is a normal float (it has
\* neither overflowed nor underflowed) and the product is finite; it gives
\* exactly 0.5 and then 5 for U = CM and v = 5.
C8_RoundTripWithinTolerance ==
    /\ Converted => out = FMul(orig, Factor(steps[1].name))
    /\ Reversed => out = FDiv(orig, Factor(steps[1].name))
    /\ RoundTrip /\ (IsZero(orig) \/ (Normal(steps[1].out) /\ out.kind = "fin")) =>
           Close(out, orig)
    /\ RoundTrip /\ steps[1].name = "CM" /\ orig = FromInt(5) =>
           /\ steps[1].out = DecLit(<<5>>, -1)
           /\ out = FromInt(5)

\* the round trip of 1 through inches has been evaluated: it gives
\* 0.9999999999999999, not 1
C8_Witness ==
    /\ RoundTrip
    /\ steps[1].name = "IN"
    /\ orig = FromInt(1)
    /\ ~FEq(out, orig)
    /\ Close(out, orig)

(***************************************************************************)
(* Claims about the version resolution                                     *)
(***************************************************************************)
\* the first line of ls that holds the marker
FirstMarkerLine(ls) ==
    ls[CHOOSE i \in 1..Len(ls) :
           Contains(Marker, ls[i]) /\ \A k \in 1..(i - 1) : ~Contains(Marker, ls[k])]

\* what follows the = of the first marker in the line
AfterMarker(line) ==
    SubSeq(line,
           (CHOOSE i \in 1..Len(line) :
                OccursAt(Marker, line, i) /\ \A k \in 1..(i - 1) : ~OccursAt(Marker, line, k))
           + Len(Marker),
           Len(line))

\* C9: when the loop has ended, the version is the text that follows the
\* marker's = on the first line holding the marker, stripped of the
\* surrounding whitespace and quote characters, and "0.0.0" when no line
\* holds the marker.
C9_VersionIsTextAfterMarker ==
    ~scanning =>
        version = IF \E i \in 1..Len(lines) : Contains(Marker, lines[i])
                  THEN Strip(Strip(AfterMarker(FirstMarkerLine(lines)), Whitespace), Quotes)
                  ELSE default_v


(***************************************************************************)
(* Claims about the build orchestration                                    *)
(***************************************************************************)
\* build_cmake is not running: before the first step, between two steps,
\* after the last, or ended by the exception of a failed invocation
StepEnded == bpc \in {"run", "done", "raised"}

\* C11: whenever build_cmake has ended, by returning (the invocations
\* succeeded or were skipped by a dry run) or by a failed invocation, the
\* working directory of the process is the one the step started in; while
\* the step is at its invocations it is the build directory.
C11_WorkdirRestored ==
    /\ StepEnded => workdir = began
    /\ ~StepEnded => workdir = Absolute(began, build_temp)


\* the calls of self.spawn made by the e-th step for one phase, as positions
\* in spawned
Calls(e, phase) ==
    {i \in 1..Len(spawned) : spawned[i].ext = e /\ spawned[i].phase = phase}

\* the e-th step is past its configure call
PastConfigure(e) == e < ext \/ (e = ext /\ bpc # "configure")

\* C12: in every step of the native build the configure phase is invoked
\* exactly once, and before the compile phase; the compile phase is invoked
\* at most once, only after a configure that succeeded and only when not in
\* a dry run, with the --config argument where os.name is not "nt" and with
\* no extra argument where it is; an invocation that failed is the last of
\* the whole run: the exception has ended it, with no retry, no later
\* phase and no later extension.
C12_TwoPhasesFailureIsFatal ==
    /\ \A e \in 1..ext :
         /\ Cardinality(Calls(e, "configure")) = IF PastConfigure(e) THEN 1 ELSE 0
         /\ Cardinality(Calls(e, "compile")) <= 1
         /\ \A i \in Calls(e, "compile") :
              /\ ~dry_run
              /\ \E j \in Calls(e, "configure") :
                   j < i /\ spawned[j].end.ran /\ spawned[j].end.exit = 0
              /\ spawned[i].cmd =
                    IF os_name # "nt"
                    THEN <<"cmake", "--build", ".", "--config", "Release --j4">>
                    ELSE <<"cmake", "--build", ".">>
    /\ \A i \in 1..Len(spawned) :
         /\ spawned[i].ext \in 1..ext
         /\ spawned[i].end.exit # 0 => i = Len(spawned) /\ bpc = "raised"

\* the compile phase of the first of two extensions has failed on a platform
\* other than Windows
C12_Witness ==
    /\ bpc = "raised"
    /\ Len(extensions) = 2
    /\ ext = 1
    /\ os_name = "posix"
    /\ Len(spawned) = 2
    /\ spawned[1].phase = "configure"
    /\ spawned[2].phase = "compile"
    /\ spawned[2].end.exit # 0
    /\ spawned[2].cmd[4] = "--config"

====
